---- MODULE Spec2Model ----
(***************************************************************************)
(* Model of overpass_along_gpx.py: the OverpassAlongGPX object, its        *)
(* chunked query loop (perform_overpass_queries), the retry loop of one    *)
(* chunk (perform_overpass_query), the deduplicating response processor    *)
(* (process_overpass_response), the tail of run(), and the line-by-line    *)
(* reading of a GPX file (parse_gpx_file).                                 *)
(*                                                                         *)
(* The Overpass service is the environment: every request attempt draws    *)
(* one outcome from AttemptKinds and, for a decodable body, one payload    *)
(* from Payloads.  An exception that no handler of the program catches     *)
(* ends the process: pc = "crashed" and error names the exception.         *)
(***************************************************************************)
EXTENDS Integers, Sequences, FiniteSets, TLC

\* ------------------------------------------------------------------ bounds
MaxLocs    == 3      \* longest location list read from the input files
MaxLimit   == 2      \* largest --limit
MaxRetries == 1      \* largest --retries
MaxElems   == 2      \* longest 'elements' array of one payload (SpecStore)
MaxLines   == 2      \* longest GPX file, in lines (SpecParse)

\* ------------------------------------------------------- program constants
ShortDelay  == 1     \* delay = 0.1 (in tenths of a second)
LongDelay   == 200   \* delay = 20  (in tenths of a second)
RateLimited == 429   \* the HTTP status compared with ex.code

VARIABLES
    locations_in, limit, retries, dry_run,      \* fields / arguments fixed per run
    nodes_out, ways_out, node_ids, way_ids,     \* the feature store
    failure,                                    \* self.failure
    pc, error,                                  \* control position, uncaught exception
    num_queries, chunk_size, chunk_i,           \* locals of perform_overpass_queries
    try_i, jresponse, success,                  \* locals of perform_overpass_query
    issued,      \* history: the location slices handed to perform_overpass_query
    printed,     \* history: the slices whose query text 'Query:' printed
    tries,       \* history: outcome of every request sent for the current chunk
    sleeps,      \* history: time.sleep arguments of the current chunk
    received,    \* history: decoded body of the latest response
    processed,   \* history: argument of the latest process_overpass_response call
    obtained,    \* the counts printed by the latest process_overpass_response
    chunk_failed,\* history: 'self.failure = True' ran for the current chunk
    exhausted,   \* history: the retry loop of some chunk ended without success
    outfile,     \* the output file: NotWritten or what write_result wrote
    infile,      \* the lines of the GPX file being parsed
    line_i       \* the number of its lines the loop of parse_gpx_file has read

vars == << locations_in, limit, retries, dry_run, nodes_out, ways_out, node_ids,
           way_ids, failure, pc, error, num_queries, chunk_size, chunk_i, try_i,
           jresponse, success, issued, printed, tries, sleeps, received, processed, obtained,
           chunk_failed, exhausted, outfile, infile, line_i >>

\* ------------------------------------------------------------- value types
Location(lat, lon) == [lat |-> lat, lon |-> lon]

Locs == { Location(51, 13), Location(52, 14) }

\* the OSM ids the service answers with
Ids == {1, 2}

\* geometry arrays a way element can carry
Geoms == { << Location(51, 13), Location(52, 14) >> }

\* One entry of jresponse['elements'].  'ok' is FALSE when the keys the
\* processor reads after the id (lat/lon, geometry) are absent.  For a node
\* pts is <<its location>>, for a way pts is its geometry array.
NodeElems ==
    { [type |-> "node", id |-> n, ok |-> TRUE, pts |-> << l >>] : n \in Ids, l \in Locs }
    \cup { [type |-> "node", id |-> n, ok |-> FALSE, pts |-> << >>] : n \in Ids }

WayElems ==
    { [type |-> "way", id |-> n, ok |-> TRUE, pts |-> g] : n \in Ids, g \in Geoms }
    \cup { [type |-> "way", id |-> n, ok |-> FALSE, pts |-> << >>] : n \in Ids }

OtherElems == { [type |-> "relation", id |-> 1, ok |-> TRUE, pts |-> << >>] }

Elements == NodeElems \cup WayElems \cup OtherElems

SeqsUpTo(S, n) == UNION { [1..k -> S] : k \in 0..n }

\* decoded response bodies without a 'remark' key
Payloads ==
    { [kind |-> "json", remark |-> FALSE, elements |-> es] :
        es \in SeqsUpTo(Elements, MaxElems) }

\* decoded response bodies with a 'remark' key: the service gave up early, the
\* elements array is empty or holds one element
RemarkPayloads ==
    { [kind |-> "json", remark |-> TRUE, elements |-> es] :
        es \in {<< >>} \cup { << e >> : e \in Elements } }

\* the bodies without remark that are as short
ShortPayloads ==
    { [kind |-> "json", remark |-> FALSE, elements |-> es] :
        es \in {<< >>} \cup { << e >> : e \in Elements } }

None == [kind |-> "None", remark |-> FALSE, elements |-> << >>]

NoCounts == [nodes |-> 0, ways |-> 0]

NotWritten == [written |-> FALSE, items |-> << >>]

Node(id, loc) == [id |-> id, loc |-> loc]

Way(id, nodes) == [id |-> id, nodes |-> nodes]

\* What one urlopen + json.load can come to.
AttemptKinds ==
    { "ok",           \* 2xx, decodable body without remark
      "remark",       \* 2xx, decodable body with a 'remark' key
      "undecodable",  \* 2xx, json.load raises
      "http429",      \* urllib.error.HTTPError, code 429
      "httperror",    \* urllib.error.HTTPError, another code
      "urlerror",     \* urllib.error.URLError without code (connection refused, DNS)
      "connerror" }   \* a ConnectionError raised by the http client itself


\* ------------------------------------------------- perform_overpass_queries
Min(a, b) == IF a <= b THEN a ELSE b

\* math.ceil(a / b) for a >= 0, b > 0
Ceil(a, b) == IF a % b = 0 THEN a \div b ELSE (a \div b) + 1

NumQueries_floor(n, lim) == IF lim <= 0 THEN 1 ELSE n \div lim

NumQueries(n, lim) == IF lim <= 0 THEN 1 ELSE Ceil(n, lim)

ChunkSize(n, lim) == IF lim <= 0 THEN n ELSE lim

\* start = i * chunk_size
ChunkStart(i, size) == i * size

\* end = min(start + chunk_size, len(self.locations_in))
ChunkEnd(start, size, n) == Min(start + size, n)

\* self.locations_in[start:end]
Slice(s, start, end) == SubSeq(s, start + 1, Min(end, Len(s)))

\* -------------------------------------------------- perform_overpass_query
ReturnsAfterPrint_never(dry) == FALSE

\* 'if dry_run: return' of perform_overpass_query, after the query is printed
ReturnsAfterPrint(dry) == dry

NextAfterDryRun_stop(i, n) == n

\* the chunk index the loop of perform_overpass_queries goes on with after
\* perform_overpass_query has returned from a dry run
NextAfterDryRun(i, n) == i + 1

AttemptResult_remarkok(kind) ==
    CASE kind \in {"ok", "remark"}                   -> "success"
      [] kind \in {"http429", "httperror"}           -> "failed"
      [] OTHER                                       -> "raise"

\* How one iteration of the retry loop ends:
\*   "success"  success = True; break
\*   "failed"   falls through to the 'failed in try' print and time.sleep
\*   "raise"    an exception leaves perform_overpass_query
\* An undecodable body enters 'except Exception as e', whose print reads the
\* unbound name ex.  A URLError without HTTP status enters
\* 'except urllib.error.URLError as ex', which reads ex.code.  A
\* ConnectionError of the http client reaches the clause
\* 'except http.client.ConnectionError', a name http.client does not have.
AttemptResult(kind) ==
    CASE kind = "ok"                                 -> "success"
      [] kind = "remark"                             -> "failed"
      [] kind \in {"http429", "httperror"}           -> "failed"
      [] kind = "undecodable"                        -> "raise"
      [] kind \in {"urlerror", "connerror"}          -> "raise"

\* the exception that leaves the function
Raised(kind) ==
    IF kind = "undecodable" THEN "NameError" ELSE "AttributeError"

\* ex.code of an HTTPError: 429, or some other error status
StatusOf(kind) == IF kind = "http429" THEN RateLimited ELSE RateLimited + 1

\* delay = 0.1 at the head of every iteration; delay = 20 if 429 == ex.code
Delay(kind) ==
    IF kind \in {"http429", "httperror"} /\ StatusOf(kind) = RateLimited
    THEN LongDelay ELSE ShortDelay

LoadJson_keepold(old, body) == IF old = None THEN body ELSE old

\* jresponse = json.load(response)
LoadJson(old, body) == body

AfterAttempt_nobreak(result, i, r) ==
    IF i + 1 < r + 1 THEN "attempt" ELSE "afterloop"

\* where control goes after iteration i of 'for i in range(0, retries + 1)'
AfterAttempt(result, i, r) ==
    IF result = "success" THEN "afterloop"
    ELSE IF i + 1 < r + 1 THEN "attempt" ELSE "afterloop"

\* ----------------------------------------------- process_overpass_response
Store == [nodes_out |-> nodes_out, ways_out |-> ways_out,
          node_ids |-> node_ids, way_ids |-> way_ids,
          node_count |-> 0, way_count |-> 0, error |-> "none"]

ProcessElement_nodedup(st, e) ==
    IF st.error # "none" \/ e.type \notin {"node", "way"} THEN st
    ELSE IF e.type = "node"
         THEN IF ~e.ok
              THEN [st EXCEPT !.node_ids = @ \cup {e.id}, !.error = "KeyError"]
              ELSE [st EXCEPT !.node_ids = @ \cup {e.id},
                              !.nodes_out = Append(@, Node(e.id, e.pts[1])),
                              !.node_count = @ + 1]
         ELSE IF ~e.ok
              THEN [st EXCEPT !.way_ids = @ \cup {e.id}, !.error = "KeyError"]
              ELSE [st EXCEPT !.way_ids = @ \cup {e.id},
                              !.ways_out = Append(@, Way(e.id, e.pts)),
                              !.way_count = @ + 1]

\* the body of 'for element in jresponse["elements"]'; once an exception has
\* been raised the remaining elements are not visited
ProcessElement(st, e) ==
    IF st.error # "none" THEN st
    ELSE IF e.type \notin {"node", "way"} THEN st
    ELSE IF e.type = "node"
         THEN IF e.id \in st.node_ids THEN st
              ELSE IF ~e.ok
                   \* node_ids.add ran, Location(element['lat'], ...) raised
                   THEN [st EXCEPT !.node_ids = @ \cup {e.id}, !.error = "KeyError"]
                   ELSE [st EXCEPT !.node_ids = @ \cup {e.id},
                                   !.nodes_out = Append(@, Node(e.id, e.pts[1])),
                                   !.node_count = @ + 1]
         ELSE IF e.id \in st.way_ids THEN st
              ELSE IF ~e.ok
                   \* way_ids.add ran, element['geometry'] raised
                   THEN [st EXCEPT !.way_ids = @ \cup {e.id}, !.error = "KeyError"]
                   ELSE [st EXCEPT !.way_ids = @ \cup {e.id},
                                   !.ways_out = Append(@, Way(e.id, e.pts)),
                                   !.way_count = @ + 1]

RECURSIVE ProcessFrom(_, _, _)
ProcessFrom(st, es, k) ==
    IF k > Len(es) THEN st ELSE ProcessFrom(ProcessElement(st, es[k]), es, k + 1)

process_overpass_response(st, jresp) == ProcessFrom(st, jresp.elements, 1)

\* ------------------------------------------------------------ write_result
Digits == << "0", "1", "2", "3", "4", "5", "6", "7", "8", "9" >>

\* the text an f-string puts for a number: its decimal digits
RECURSIVE Str(_)
Str(n) == IF n < 10 THEN << Digits[n + 1] >>
          ELSE Str(n \div 10) \o << Digits[(n % 10) + 1] >>

\* <wpt lat=".." lon=".."> with <osmid> in its extensions
write_node(node) ==
    [tag |-> "wpt", lat |-> Str(node.loc.lat), lon |-> Str(node.loc.lon),
     trkseg |-> << >>, osmid |-> Str(node.id)]

\* <trk> with one <trkseg> of <trkpt lat=".." lon=".."> and <osmid>
write_way(way) ==
    [tag |-> "trk", lat |-> << >>, lon |-> << >>,
     trkseg |-> [k \in 1..Len(way.nodes) |->
                    [lat |-> Str(way.nodes[k].lat), lon |-> Str(way.nodes[k].lon)]],
     osmid |-> Str(way.id)]

write_result_waysfirst(nodes, ways) ==
    [written |-> TRUE,
     items |-> [k \in 1..Len(ways) |-> write_way(ways[k])]
               \o [k \in 1..Len(nodes) |-> write_node(nodes[k])]]

\* the elements written between header and footer: the nodes, then the ways
write_result(nodes, ways) ==
    [written |-> TRUE,
     items |-> [k \in 1..Len(nodes) |-> write_node(nodes[k])]
               \o [k \in 1..Len(ways) |-> write_way(ways[k])]]

\* ---------------------------------------------------------- parse_gpx_file
\* the number a text of decimal digits stands for
DigitVal(c) == CHOOSE d \in 0..9 : Digits[d + 1] = c

RECURSIVE Val(_)
Val(t) == IF t = << >> THEN 0
          ELSE 10 * Val(SubSeq(t, 1, Len(t) - 1)) + DigitVal(t[Len(t)])

\* the words that make a line a point: '<trkpt', '<wpt', '<rtept'
PointWords == { "trkpt", "wpt", "rtept" }

\* an attribute of a line: absent, or name="text"
Absent == [present |-> FALSE, text |-> << >>]

Quoted(t) == [present |-> TRUE, text |-> t]

\* latitude texts: 1.5, -1.5 and the malformed 1,5
LatTexts == { << "1", ".", "5" >>, << "-", "1", ".", "5" >>, << "1", ",", "5" >> }

\* longitude texts: 2.5 and -2.5
LonTexts == { << "2", ".", "5" >>, << "-", "2", ".", "5" >> }

\* One line of a GPX file: the element it opens and its lat and lon
\* attributes.  "trk" stands for every line that opens no point.
Lines ==
    { [word |-> w, lat |-> a, lon |-> b] :
        w \in PointWords \cup { "trk" },
        a \in { Absent } \cup { Quoted(t) : t \in LatTexts },
        b \in { Absent } \cup { Quoted(t) : t \in LonTexts } }

IsDigit(c) == \E d \in 1..10 : Digits[d] = c

\* the text between the quotes is \d+\.\d+
MatchesDecimal(t) ==
    \E p \in 2..(Len(t) - 1) :
        /\ t[p] = "."
        /\ \A j \in 1..Len(t) : j # p => IsDigit(t[j])

\* re.search('lat="\d+\.\d+"', line), and the same for lon
Search(attr) == attr.present /\ MatchesDecimal(attr.text)

\* float(text) of a decimal text with an optional sign: the sign, the integer
\* part and the digits after the point
float(t) ==
    LET neg == t # << >> /\ t[1] = "-"
        u   == IF neg THEN Tail(t) ELSE t
        p   == CHOOSE i \in 1..Len(u) : u[i] = "."
    IN  [neg |-> neg, whole |-> Val(SubSeq(u, 1, p - 1)),
         frac |-> SubSeq(u, p + 1, Len(u))]

\* the body of 'for line in infile': the location list after the line
parse_gpx_line(locs, line) ==
    IF line.word \notin PointWords THEN locs
    \* if not 'lat="' in line and 'lon="' in line: continue
    ELSE IF (~line.lat.present) /\ line.lon.present THEN locs
    ELSE IF ~Search(line.lat) THEN locs
    ELSE IF ~Search(line.lon) THEN locs
    ELSE Append(locs, Location(float(line.lat.text), float(line.lon.text)))

\* ------------------------------------------------------------------ state
\* the object as main() constructs it, for a run over n locations
InitWith(lengths, limits, retry_counts, dry_runs) ==
    /\ \E n \in lengths : locations_in = [k \in 1..n |-> k]
    /\ limit \in limits
    /\ retries \in retry_counts
    /\ dry_run \in dry_runs
    /\ nodes_out = << >> /\ ways_out = << >>
    /\ node_ids = {} /\ way_ids = {}
    /\ failure = FALSE
    /\ pc = "start" /\ error = "none"
    /\ num_queries = 0 /\ chunk_size = 0 /\ chunk_i = 0
    /\ try_i = 0 /\ jresponse = None /\ success = FALSE
    /\ issued = << >> /\ printed = << >>
    /\ tries = << >> /\ sleeps = << >>
    /\ received = None /\ processed = None
    /\ obtained = NoCounts
    /\ chunk_failed = FALSE /\ exhausted = FALSE
    /\ outfile = NotWritten
    /\ infile = << >> /\ line_i = 0

Init == InitWith(0..MaxLocs, 0..MaxLimit, -1..MaxRetries, BOOLEAN)

NoLocations_never(locs) == FALSE

\* 'if not self.locations_in' of run()
NoLocations(locs) == locs = << >>

WritesResult_always(dry, nodes, ways) == ~dry

\* run() writes the result: not in a dry run, and only if there is a node or a way
WritesResult(dry, nodes, ways) == ~dry /\ (nodes # << >> \/ ways # << >>)

config == << locations_in, limit, retries, dry_run >>
store == << nodes_out, ways_out, node_ids, way_ids >>
chunkHist == << tries, sleeps, received, processed >>
parsing == << infile, line_i >>

\* run(): the input files are parsed; without locations it returns, otherwise
\* it enters perform_overpass_queries, which fixes num_queries and chunk_size
Run ==
    /\ pc = "start"
    /\ IF NoLocations(locations_in)
       THEN /\ pc' = "halted"
            /\ UNCHANGED << num_queries, chunk_size >>
       ELSE /\ pc' = "chunk"
            /\ num_queries' = NumQueries(Len(locations_in), limit)
            /\ chunk_size' = ChunkSize(Len(locations_in), limit)
    /\ UNCHANGED << parsing, config, store, failure, error, chunk_i, try_i, jresponse,
                    success, issued, printed, chunkHist, obtained, chunk_failed, exhausted,
                    outfile >>

\* one iteration of the loop of perform_overpass_queries up to the first
\* request of perform_overpass_query (or its return, in a dry run)
BeginChunk ==
    /\ pc = "chunk"
    /\ chunk_i < num_queries
    /\ LET start == ChunkStart(chunk_i, chunk_size)
           end   == ChunkEnd(start, chunk_size, Len(locations_in))
       IN  /\ issued' = Append(issued, Slice(locations_in, start, end))
           /\ printed' = IF dry_run
                         THEN Append(printed, Slice(locations_in, start, end))
                         ELSE printed
    /\ tries' = << >> /\ sleeps' = << >>
    /\ received' = None /\ processed' = None
    /\ IF ReturnsAfterPrint(dry_run)
       THEN /\ chunk_i' = NextAfterDryRun(chunk_i, num_queries)
            /\ pc' = "chunk"
            /\ UNCHANGED << try_i, jresponse, success >>
       ELSE /\ try_i' = 0
            /\ jresponse' = None
            /\ success' = FALSE
            /\ pc' = IF 0 < retries + 1 THEN "attempt" ELSE "afterloop"
            /\ UNCHANGED chunk_i
    /\ obtained' = NoCounts
    /\ chunk_failed' = FALSE
    /\ UNCHANGED << parsing, config, store, failure, error, num_queries, chunk_size,
                    exhausted, outfile >>

\* one iteration of the retry loop: the request, the decoding of its answer,
\* and the sleep that ends a failed iteration
Attempt(kind, body) ==
    /\ pc = "attempt"
    /\ tries' = Append(tries, kind)
    /\ IF kind \in {"ok", "remark"}
       THEN /\ body.remark = (kind = "remark")
            /\ jresponse' = LoadJson(jresponse, body)
            /\ received' = body
       ELSE /\ body = None
            /\ UNCHANGED << jresponse, received >>
    /\ LET result == AttemptResult(kind)
       IN  CASE result = "raise" ->
                  /\ pc' = "crashed"
                  /\ error' = Raised(kind)
                  /\ UNCHANGED << success, try_i, sleeps >>
             [] result = "success" ->
                  /\ success' = TRUE
                  /\ pc' = AfterAttempt(result, try_i, retries)
                  /\ try_i' = IF pc' = "attempt" THEN try_i + 1 ELSE try_i
                  /\ UNCHANGED << error, sleeps >>
             [] result = "failed" ->
                  /\ sleeps' = Append(sleeps, Delay(kind))
                  /\ pc' = AfterAttempt(result, try_i, retries)
                  /\ try_i' = IF pc' = "attempt" THEN try_i + 1 ELSE try_i
                  /\ UNCHANGED << error, success >>
    /\ UNCHANGED << parsing, config, store, failure, num_queries, chunk_size, chunk_i,
                    issued, printed, processed, obtained, chunk_failed, exhausted,
                    outfile >>

\* the code after the retry loop: record the failure, or process the
\* response; then perform_overpass_query returns and its locals are gone
EndChunk ==
    /\ pc = "afterloop"
    /\ IF ~success
       THEN /\ failure' = TRUE
            /\ chunk_failed' = TRUE
            /\ exhausted' = TRUE
            /\ pc' = "chunk"
            /\ chunk_i' = chunk_i + 1
            /\ UNCHANGED << store, error, processed, obtained >>
       ELSE LET st == process_overpass_response(Store, jresponse)
            IN  /\ processed' = jresponse
                /\ nodes_out' = st.nodes_out
                /\ ways_out' = st.ways_out
                /\ node_ids' = st.node_ids
                /\ way_ids' = st.way_ids
                /\ error' = st.error
                /\ IF st.error = "none"
                   THEN /\ pc' = "chunk"
                        /\ chunk_i' = chunk_i + 1
                        /\ obtained' = [nodes |-> st.node_count, ways |-> st.way_count]
                   ELSE /\ pc' = "crashed"
                        /\ UNCHANGED << chunk_i, obtained >>
                /\ UNCHANGED << failure, chunk_failed, exhausted >>
    /\ try_i' = 0 /\ jresponse' = None /\ success' = FALSE
    /\ UNCHANGED << parsing, config, num_queries, chunk_size, issued, printed, tries,
                    sleeps, received, outfile >>

\* the tail of run() after perform_overpass_queries has returned
Finish ==
    /\ pc = "chunk"
    /\ chunk_i = num_queries
    /\ pc' = "done"
    /\ outfile' = IF WritesResult(dry_run, nodes_out, ways_out)
                  THEN write_result(nodes_out, ways_out)
                  ELSE outfile
    /\ UNCHANGED << parsing, config, store, failure, error, num_queries, chunk_size,
                    chunk_i, try_i, jresponse, success, issued, printed,
                    chunkHist, obtained, chunk_failed, exhausted >>

\* the service answers one request: any outcome, any body of the given sets
Request(oks, remarks) ==
    \E kind \in AttemptKinds :
        \E body \in (CASE kind = "ok" -> oks
                       [] kind = "remark" -> remarks
                       [] OTHER -> {None}) : Attempt(kind, body)

\* Any run; the service answers with short bodies.
Next ==
    \/ Run
    \/ BeginChunk
    \/ Request(ShortPayloads, RemarkPayloads)
    \/ EndChunk
    \/ Finish

Spec == Init /\ [][Next]_vars

\* Runs of one or two chunks of one location each, a single attempt per
\* chunk; the service answers with bodies of up to MaxElems elements.
InitStore == InitWith({1, 2}, {1}, {0}, {FALSE})

NextStore ==
    \/ Run
    \/ BeginChunk
    \/ Request(Payloads, RemarkPayloads)
    \/ EndChunk
    \/ Finish

SpecStore == InitStore /\ [][NextStore]_vars

\* one iteration of 'for line in infile' of parse_gpx_file
ParseLine ==
    /\ pc = "parse"
    /\ line_i < Len(infile)
    /\ locations_in' = parse_gpx_line(locations_in, infile[line_i + 1])
    /\ line_i' = line_i + 1
    /\ UNCHANGED << infile, limit, retries, dry_run, store, failure, pc, error,
                    num_queries, chunk_size, chunk_i, try_i, jresponse, success,
                    issued, printed, chunkHist, obtained, chunk_failed,
                    exhausted, outfile >>

\* the file is read to its end: parse_gpx_file returns into run()
EndOfFile ==
    /\ pc = "parse"
    /\ line_i = Len(infile)
    /\ pc' = "start"
    /\ UNCHANGED << parsing, config, store, failure, error, num_queries,
                    chunk_size, chunk_i, try_i, jresponse, success, issued,
                    printed, chunkHist, obtained, chunk_failed, exhausted,
                    outfile >>

\* run() is about to parse its input file: any file of up to MaxLines lines
InitParse ==
    /\ infile \in SeqsUpTo(Lines, MaxLines) /\ line_i = 0
    /\ locations_in = << >>
    /\ limit = 0 /\ retries = 0 /\ dry_run = FALSE
    /\ nodes_out = << >> /\ ways_out = << >>
    /\ node_ids = {} /\ way_ids = {}
    /\ failure = FALSE
    /\ pc = "parse" /\ error = "none"
    /\ num_queries = 0 /\ chunk_size = 0 /\ chunk_i = 0
    /\ try_i = 0 /\ jresponse = None /\ success = FALSE
    /\ issued = << >> /\ printed = << >>
    /\ tries = << >> /\ sleeps = << >>
    /\ received = None /\ processed = None
    /\ obtained = NoCounts
    /\ chunk_failed = FALSE /\ exhausted = FALSE
    /\ outfile = NotWritten

NextParse ==
    \/ ParseLine
    \/ EndOfFile

SpecParse == InitParse /\ [][NextParse]_vars

\* ----------------------------------------------------------------- claims
Last(s) == s[Len(s)]

\* no request of the current chunk got a decodable payload without remark
AllFailed(t) == \A k \in 1..Len(t) : t[k] # "ok"

\* the run has stopped: normally, or by an uncaught exception
Stopped == pc \in {"done", "crashed"}

\* the retry loop of the current chunk is over
LoopOver == pc \in {"afterloop", "chunk", "done", "crashed"}

NodeIdsOf(ns) == { ns[k].id : k \in 1..Len(ns) }

ElemIds(es, t) == { es[k].id : k \in { j \in 1..Len(es) : es[j].type = t } }

RECURSIVE Flatten(_)
Flatten(ss) == IF ss = << >> THEN << >> ELSE Head(ss) \o Flatten(Tail(ss))

\* C1: a chunk whose attempts have all failed and whose retry loop is over has
\* had exactly retries + 1 requests sent, and when control has moved past the
\* chunk it has been recorded as failed.
C1_RetryBudget ==
    (~dry_run /\ retries >= 0 /\ tries # << >> /\ AllFailed(tries) /\ LoopOver)
        => /\ Len(tries) = retries + 1
           /\ (pc \in {"chunk", "done"} => failure /\ chunk_failed)

\* C2: a payload without remark ends the attempts of its chunk: it is the last
\* request sent, it is the payload the processor receives, and the chunk is
\* not recorded as failed.
C2_EarlySuccess ==
    /\ \A k \in 1..Len(tries) : tries[k] = "ok" => k = Len(tries)
    /\ (tries # << >> /\ Last(tries) = "ok") =>
          /\ pc # "attempt"
          /\ Len(tries) <= retries + 1
          /\ (pc = "afterloop" => success /\ jresponse = received)
          /\ (pc # "afterloop" => processed = received /\ ~chunk_failed)

\* a chunk that succeeded at its second attempt, after a remarked first answer
C2_Witness ==
    /\ pc = "chunk"
    /\ tries = << "remark", "ok" >>
    /\ processed = received
    /\ processed.elements # << >>
    /\ nodes_out # << >>
    /\ ~failure

\* C3: an undecodable body is a failed attempt like the others: the short
\* backoff is slept after it and the run goes on.
C3_DecodeErrorRetried ==
    (tries # << >> /\ Last(tries) = "undecodable")
        => /\ pc # "crashed"
           /\ Len(sleeps) = Len(tries)
           /\ Last(sleeps) = ShortDelay

\* C4: every transport failure, with or without HTTP status, is a failed
\* attempt that is followed by its backoff sleep; none ends the run.
C4_TransportErrorRetried ==
    \A k \in 1..Len(tries) :
        tries[k] \in {"http429", "httperror", "urlerror", "connerror"}
            => k <= Len(sleeps) /\ (k = Len(tries) => pc # "crashed")

C5_RemarkIsFailure ==
    /\ processed.remark = FALSE
    /\ (tries # << >> /\ Last(tries) = "remark") =>
          /\ ~success
          /\ processed = None
          /\ Len(sleeps) = Len(tries)
          /\ (pc = "attempt" => try_i = Len(tries) /\ try_i <= retries)
          /\ (pc # "attempt" => Len(tries) = retries + 1)
          /\ (pc \in {"chunk", "done"} => failure /\ chunk_failed)

C5_StoreStep ==
    (store' # store) =>
        /\ ~received.remark
        /\ processed' = received
        /\ NodeIdsOf(nodes_out') \subseteq
               NodeIdsOf(nodes_out) \cup ElemIds(received.elements, "node")
        /\ NodeIdsOf(ways_out') \subseteq
               NodeIdsOf(ways_out) \cup ElemIds(received.elements, "way")

\* C5: a remarked payload uses up one attempt of the budget and is never
\* processed: the store changes only by features of a payload without remark.
C5_RemarkNeverData == [](C5_RemarkIsFailure) /\ [][C5_StoreStep]_vars

\* the last attempt of a chunk brought a remarked payload holding a node
C5_Witness ==
    /\ pc = "chunk"
    /\ tries # << >> /\ Last(tries) = "remark"
    /\ Len(tries) = retries + 1
    /\ received.remark
    /\ received.elements # << >>
    /\ received.elements[1].type = "node" /\ received.elements[1].ok
    /\ nodes_out = << >>
    /\ failure

\* C6: once the run has stopped, a chunk whose attempts all failed has left
\* failure set, every chunk has been attempted and the run ended normally.
C6_FailureContained ==
    (Stopped /\ ~dry_run
        /\ (exhausted \/ (tries # << >> /\ AllFailed(tries))))
        => /\ failure
           /\ Len(issued) = num_queries
           /\ pc = "done"

\* C7: a run over a non-empty location list stops only at its normal end,
\* with every chunk attempted and the accumulated features written.
C7_RunCompletes ==
    (locations_in # << >> /\ ~dry_run /\ pc \notin {"start", "chunk", "attempt", "afterloop"})
        => /\ pc = "done"
           /\ Len(issued) = num_queries
           /\ ((nodes_out # << >> \/ ways_out # << >>) => outfile.written)

\* C8: with limit > 0 the chunks issued are the consecutive slices of limit
\* locations (the last one possibly shorter), none empty; at the normal end
\* their number is ceil(n / limit) and their concatenation is the input.
C8_ChunkPartition ==
    LET n == Len(locations_in)
    IN  (limit > 0 /\ n >= 1) =>
          /\ \A k \in 1..Len(issued) :
                /\ issued[k] = SubSeq(locations_in, (k - 1) * limit + 1, Min(k * limit, n))
                /\ Len(issued[k]) >= 1
                /\ (k * limit < n => Len(issued[k]) = limit)
          /\ (Len(issued) - 1) * limit < n
          /\ (pc = "done" =>
                /\ n <= Len(issued) * limit
                /\ Flatten(issued) = locations_in)

\* three locations in chunks of two: a full chunk and a shorter last one
C8_Witness ==
    /\ pc = "done"
    /\ Len(locations_in) = 3 /\ limit = 2
    /\ issued = << << 1, 2 >>, << 3 >> >>

C9_NoDuplicates ==
    /\ \A j, k \in 1..Len(nodes_out) : nodes_out[j].id = nodes_out[k].id => j = k
    /\ \A j, k \in 1..Len(ways_out) : ways_out[j].id = ways_out[k].id => j = k

C9_AllSeenStep ==
    (/\ pc = "afterloop" /\ success
     /\ ElemIds(jresponse.elements, "node") \subseteq node_ids
     /\ ElemIds(jresponse.elements, "way") \subseteq way_ids)
        => /\ UNCHANGED store
           /\ obtained' = NoCounts
           /\ pc' = "chunk"

\* C9: processing a payload whose node and way ids have all been seen changes
\* nothing in the store and counts zero features; no id occurs twice in
\* nodes_out, none twice in ways_out.
C9_DedupLaw == [](C9_NoDuplicates) /\ [][C9_AllSeenStep]_vars

\* a second chunk returned only nodes and ways, all of them seen before
C9_Witness ==
    /\ pc = "chunk" /\ error = "none"
    /\ Len(issued) = 2
    /\ processed # None
    /\ processed.elements # << >>
    /\ \A k \in 1..Len(processed.elements) :
          processed.elements[k].type \in {"node", "way"}
    /\ obtained = NoCounts
    /\ Len(nodes_out) + Len(ways_out) >= 1

\* C10: outside process_overpass_response the id sets are exactly the ids of
\* the stored entries, one entry per id.
C10_StoreInvariant ==
    /\ node_ids = NodeIdsOf(nodes_out)
    /\ way_ids = NodeIdsOf(ways_out)
    /\ Cardinality(node_ids) = Len(nodes_out)
    /\ Cardinality(way_ids) = Len(ways_out)


\* C11: in a dry run no request is sent, nothing is slept, no response is
\* received or processed, the store stays empty, failure stays false and no
\* output file is written.
C11_DryRunNoIO ==
    dry_run =>
        /\ tries = << >> /\ sleeps = << >>
        /\ received = None /\ processed = None
        /\ pc \notin {"attempt", "afterloop", "crashed"}
        /\ nodes_out = << >> /\ ways_out = << >>
        /\ node_ids = {} /\ way_ids = {}
        /\ ~failure
        /\ ~outfile.written

\* a dry run over three locations in chunks of one has ended
C11_Witness ==
    /\ dry_run /\ pc = "done"
    /\ Len(locations_in) = 3 /\ limit = 1
    /\ Len(issued) = 3

\* C12: without input locations the run halts: no query is built, no request
\* is sent and no output file is written, whatever limit, retries and dry_run.
C12_NoLocationsHalts ==
    locations_in = << >> =>
        /\ pc \in {"start", "halted"}
        /\ issued = << >> /\ printed = << >>
        /\ tries = << >>
        /\ num_queries = 0
        /\ ~outfile.written

\* a run that would send requests (not a dry run, retries = 1) has halted
\* for want of locations
C12_Witness ==
    /\ pc = "halted"
    /\ locations_in = << >>
    /\ ~dry_run /\ limit = 0 /\ retries = 1


\* positions of the elements of type t that bring an id for the first time
NewIdx(es, t, seen) ==
    { k \in 1..Len(es) :
        /\ es[k].type = t
        /\ es[k].id \notin seen
        /\ \A j \in 1..(k - 1) : ~(es[j].type = t /\ es[j].id = es[k].id) }

IsPrefix(a, b) == Len(a) <= Len(b) /\ SubSeq(b, 1, Len(a)) = a

C13_Output ==
    outfile.written =>
        LET items == outfile.items
            nn    == Len(nodes_out)
            nw    == Len(ways_out)
        IN  /\ Len(items) = nn + nw
            /\ \A k \in 1..nn :
                  /\ items[k].tag = "wpt"
                  /\ Val(items[k].osmid) = nodes_out[k].id
                  /\ Val(items[k].lat) = nodes_out[k].loc.lat
                  /\ Val(items[k].lon) = nodes_out[k].loc.lon
            /\ \A k \in 1..nw :
                  /\ items[nn + k].tag = "trk"
                  /\ Val(items[nn + k].osmid) = ways_out[k].id
                  /\ Len(items[nn + k].trkseg) = Len(ways_out[k].nodes)
                  /\ \A j \in 1..Len(ways_out[k].nodes) :
                        /\ Val(items[nn + k].trkseg[j].lat) = ways_out[k].nodes[j].lat
                        /\ Val(items[nn + k].trkseg[j].lon) = ways_out[k].nodes[j].lon

C13_StoreStep ==
    /\ IsPrefix(nodes_out, nodes_out') /\ IsPrefix(ways_out, ways_out')
    /\ (pc = "afterloop" /\ success /\ pc' = "chunk") =>
          LET es == received.elements
              ni == NewIdx(es, "node", node_ids)
              wi == NewIdx(es, "way", way_ids)
          IN  /\ Len(nodes_out') = Len(nodes_out) + Cardinality(ni)
              /\ Len(ways_out') = Len(ways_out) + Cardinality(wi)
              /\ \A k \in ni :
                    LET n == nodes_out'[Len(nodes_out) + Cardinality({ j \in ni : j <= k })]
                    IN  n.id = es[k].id /\ n.loc = es[k].pts[1]
              /\ \A k \in wi :
                    LET w == ways_out'[Len(ways_out) + Cardinality({ j \in wi : j <= k })]
                    IN  w.id = es[k].id /\ w.nodes = es[k].pts

\* C13: the store keeps its entries in first-seen order, each with the id and
\* the coordinates (a way: the geometry points, in order) of the element that
\* brought it; the output lists the nodes of the store as waypoints, in store
\* order, then its ways as tracks, in store order, with those ids and values.
C13_OutputRoundTrip == [](C13_Output) /\ [][C13_StoreStep]_vars

\* two chunks brought node 2 before node 1 and a way; the file is written
C13_Witness ==
    /\ pc = "done" /\ outfile.written
    /\ Len(issued) = 2
    /\ Len(nodes_out) = 2 /\ nodes_out[1].id = 2 /\ nodes_out[2].id = 1
    /\ Len(ways_out) >= 1
    /\ Len(outfile.items) = Len(nodes_out) + Len(ways_out)


C15_BackoffSelection ==
    /\ Len(sleeps) <= Len(tries)
    /\ \A k \in 1..Len(tries) :
          tries[k] # "ok" =>
             /\ k <= Len(sleeps)
             /\ (sleeps[k] = LongDelay <=> tries[k] = "http429")
             /\ (sleeps[k] = ShortDelay <=> tries[k] # "http429")


\* C16 as stated: a dry run over more than one chunk builds and prints the
\* query of the first chunk only and visits no later chunk.
C16_DryRunFirstChunkOnly ==
    (dry_run /\ num_queries > 1) => Len(printed) <= 1 /\ Len(issued) <= 1

\* C16: a dry run visits every chunk in order: the query of each chunk is
\* built and printed, none is sent, and at the end of the run all num_queries
\* chunks have been printed.
C16_DryRunVisitsAll ==
    dry_run =>
        /\ printed = issued
        /\ Len(printed) = chunk_i
        /\ tries = << >>
        /\ (pc = "done" => Len(printed) = num_queries)

\* a dry run over three locations in chunks of two has printed both chunks
C16_Witness ==
    /\ dry_run /\ pc = "done"
    /\ limit = 2
    /\ printed = << << 1, 2 >>, << 3 >> >>


\* C17: a sleep happens only between a failed attempt and the retry that
\* follows it: after a sleep another attempt of the chunk is due, and a chunk
\* whose retries + 1 attempts all failed has slept retries times.
C17_SleepsOnlyBetween ==
    /\ (sleeps # << >> /\ Len(sleeps) = Len(tries)) => pc = "attempt"
    /\ (LoopOver /\ AllFailed(tries) /\ Len(tries) = retries + 1)
          => Len(sleeps) = retries


\* C18: whatever the value of retries, a chunk is recorded as failed only
\* after at least one request has been sent for it.
C18_FailedOnlyAfterRequest ==
    (~dry_run /\ chunk_failed) => /\ failure
                                  /\ tries # << >>


\* the steps of a chunk whose attempts all fail: its start, its attempts, and
\* the code after its retry loop
C19_FrameStep ==
    /\ (pc = "chunk" /\ pc' \in {"attempt", "afterloop"})
          => UNCHANGED << store, config, failure >>
    /\ pc = "attempt"
          => UNCHANGED << store, config, failure >>
    /\ (pc = "afterloop" /\ AllFailed(tries))
          => /\ UNCHANGED << store, config >>
             /\ failure' /\ chunk_failed'
             /\ pc' = "chunk"

\* C19: a chunk whose attempts all fail leaves nodes_out, ways_out, node_ids
\* and way_ids as they were when it started; of the fields of the object it
\* changes failure only, which it sets.
C19_FailedChunkFrame == [][C19_FrameStep]_vars

\* the second chunk failed with a rate-limited and a remarked answer; the
\* node the first chunk brought is still the whole store
C19_Witness ==
    /\ pc = "chunk" /\ chunk_failed /\ failure
    /\ Len(issued) = 2
    /\ tries = << "http429", "remark" >>
    /\ Len(nodes_out) = 1 /\ node_ids = { nodes_out[1].id }
    /\ ways_out = << >> /\ way_ids = {}


\* a decimal number with an optional minus sign
SignedDecimal(t) ==
    \/ MatchesDecimal(t)
    \/ (Len(t) > 1 /\ t[1] = "-" /\ MatchesDecimal(Tail(t)))

\* a wpt / trkpt / rtept line that carries decimal lat and lon attributes
CarriesPoint(line) ==
    /\ line.word \in PointWords
    /\ line.lat.present /\ SignedDecimal(line.lat.text)
    /\ line.lon.present /\ SignedDecimal(line.lon.text)

RECURSIVE PointsOf(_)
PointsOf(lines) ==
    IF lines = << >> THEN << >>
    ELSE LET line == Head(lines)
         IN  (IF CarriesPoint(line)
              THEN << Location(float(line.lat.text), float(line.lon.text)) >>
              ELSE << >>) \o PointsOf(Tail(lines))

\* C20: after any number of lines read, locations_in holds one Location, in
\* file order and with the values read, for every line read that is a point
\* with decimal lat and lon, negative ones included, and nothing else; the
\* loop reads the file to its end.
C20_ParseGpxFile ==
    /\ line_i <= Len(infile)
    /\ locations_in = PointsOf(SubSeq(infile, 1, line_i))
    /\ (pc # "parse" => line_i = Len(infile))

====
